---- MODULE Spec2Model ----
(***************************************************************************)
(* Tenant routing of the API gateway and the control-plane directory it    *)
(* consults.                                                               *)
(*                                                                         *)
(*   control plane  src/unnamed/part_001  organizations.ts (Convex)        *)
(*   gateway        src/unnamed/part_003  middleware/routing.ts (Hono)     *)
(*                                                                         *)
(* Convex mutations and queries are serializable transactions, so each is  *)
(* one atomic action.  routeToClient is an async function with one await   *)
(* (the control-plane query): it runs as three steps, the code up to the   *)
(* await, the query at the control plane, and the code after the await;    *)
(* other handlers and timers run in between.                               *)
(***************************************************************************)
EXTENDS Integers, Sequences, FiniteSets, TLC

\* ------------------------------------------------------------ bounds
NumRequests == 2      \* routing calls in one behaviour
MaxTicks    == 3      \* clock steps in one behaviour

MaxWindows  == 1      \* rate-limit windows that end in one behaviour
MaxLines    == 3      \* lines of a markdown the parser is given
MaxChunks   == 3      \* rows of documentChunks in one behaviour
MaxEntities == 2      \* rows of entities in one behaviour
MaxJobs     == 2      \* createJob calls in one behaviour
MaxProjectTime == 2   \* clock steps of the client project in one behaviour
MaxCalls    == 3      \* calls of wrapped functions in one behaviour
MaxEvents   == 2      \* rows of systemEvents in one behaviour
MaxAudits   == 3      \* rows of auditLogs in one behaviour

\* ------------------------------------------------------------ constants
CACHE_TTL == 5 * 60 * 1000

\* The clock advances in steps of half a TTL.
TimeUnit == CACHE_TTL \div 2
MaxTime  == MaxTicks * TimeUnit

Domains     == {"acme", "beta"}   \* domains requests name
OrgDomains  == {"acme"}           \* domains organizations are registered under
NoDomain    == ""                  \* c.req.param('domain') absent: falsy
ProjectIds  == {"proj_1"}
ProjectUrls == {"https://p1.convex.cloud", ""}
OwnerIds    == {"user_1"}
OrgIds      == 1..Cardinality(OrgDomains)   \* ids the mutations are called with
AnyProjectIds == ProjectIds \cup {""}      \* v.string() admits the empty string
AnyOrgIds   == 1..Cardinality(Domains)      \* ids when every domain registers
Undefined   == "undefined"         \* a field the object does not have

\* Clerk organization id of a tenant (organizations.clerkOrgId).
ClerkOrgIdOf(d) == "org_" \o d

\* jwtPayload.org_memberships of the callers.  An entry carries org_slug and
\* org_id; it has no clerkOrgId field.
Membership(slug, id) == [org_slug |-> slug, org_id |-> id, clerkOrgId |-> Undefined]
JwtPayloads ==
  { [sub |-> "user_1", org_memberships |-> << Membership("acme", "org_acme") >>],
    [sub |-> "user_2", org_memberships |-> << >>],
    [sub |-> "user_3", org_memberships |-> << Membership("beta", Undefined) >>] }

Requests == 1..NumRequests

Null     == [isNull |-> TRUE]      \* JS null / undefined object
NoClient == 0
NotSupplied == << >>                \* an optional argument or field left out

VARIABLES
  organizations,      \* control plane table, in insertion order; _id = index
  userOrganizations,  \* control plane table
  clientCache,        \* gateway: Map domain -> {client, projectUrl, cachedAt}
  nextClient,         \* identity of the next ConvexHttpClient the gateway creates
  now,                \* Date.now()
  req,                \* the routing calls: position and Hono context
  clientConnections,  \* Express router: Map projectUrl -> client
  xreq,               \* Express router: the calls, position and request object
  documentIngestion,  \* client project table, in insertion order; _id = index
  processingQueue,    \* client project table
  documentChunks,     \* client project table
  entities,           \* client project table
  auditLogs,          \* client project table
  redis,              \* Upstash Redis: key -> counter and whether it expires
  window,             \* Math.floor(Date.now() / 1000 / limits.window)
  lreq,               \* the requests passing the gateway's middleware chain
  made,               \* requests counted so far, by the user who sent them
  passed,             \* requests let through by the limit check so far,
                      \* by key and by the window in which they passed
  backgroundJobs,     \* client project table, in insertion order; _id = index
  projectNow,         \* Date.now() in the client project's functions, in
                      \* units of ProjectTimeUnit
  returnedJobs,       \* what the last processPendingJobs call returned
  featureFlags,       \* client project table
  systemEvents,       \* client project table
  wrapped,            \* the last call of a function built by wrapApi
  cache,              \* client project table, in insertion order; _id = index
  cacheCall           \* the last call of a function built by withCache

\* The variables of the programs other than the control plane and the Hono
\* gateway, which the functions of these two leave alone.
controlVars   == << organizations, userOrganizations >>
gatewayVars   == << clientCache, nextClient, now, req >>
expressVars   == << clientConnections, xreq >>
pipelineVars  == << documentIngestion, processingQueue, documentChunks,
                    entities, auditLogs >>
limiterVars   == << redis, window, lreq, made, passed >>
jobsVars      == << backgroundJobs, projectNow, returnedJobs >>
wrapVars      == << featureFlags, systemEvents, wrapped >>
cacheVars     == << cache, cacheCall >>
libraryVars   == << jobsVars, wrapVars, cacheVars >>
beyondGateway == << expressVars, pipelineVars, limiterVars, libraryVars >>
beyondExpress == << pipelineVars, limiterVars, libraryVars >>
beyondPipeline == << limiterVars, libraryVars >>
beyondLimiter == << libraryVars >>

vars == << organizations, userOrganizations, clientCache, nextClient, now, req,
           beyondGateway >>

\* A call that has returned keeps its context for one state, in which its
\* outcome can be read; requestEnds then drops it before anything else
\* happens.  Nothing reads the context of another call, so no behaviour is
\* lost.
NoneDone == \A r \in Requests : req[r].pc # "done"

\* ------------------------------------------------------------ control plane

\* Mutant of FirstByDomain: the index range is dropped, .first() of the table.
FirstOfTable(d) ==
  IF Len(organizations) = 0 THEN 0 ELSE 1

\* .withIndex("by_domain", q => q.eq("domain", d)).first()
FirstByDomain(d) ==
  LET hits == { i \in 1..Len(organizations) : organizations[i].domain = d }
  IN  IF hits = {} THEN 0 ELSE CHOOSE i \in hits : \A j \in hits : i <= j

\* Mutant of getOrganizationByDomain: the by_domain index is not used, the
\* first active organization of the table is returned.
getFirstActiveOrganization(d) ==
  LET hits == { i \in 1..Len(organizations) :
                  organizations[i].deploymentStatus = "active" }
      i    == IF hits = {} THEN 0 ELSE CHOOSE k \in hits : \A j \in hits : k <= j
  IN  IF i = 0
      THEN Null
      ELSE [ _id              |-> i,
             projectUrl       |-> organizations[i].projectUrl,
             deploymentStatus |-> organizations[i].deploymentStatus ]

\* Mutant of getOrganizationByDomain: the status test is dropped, a record
\* is returned whatever its status.
getOrganizationByDomainAnyStatus(d) ==
  LET i == FirstByDomain(d)
  IN  IF i = 0
      THEN Null
      ELSE [ _id              |-> i,
             projectUrl       |-> organizations[i].projectUrl,
             deploymentStatus |-> organizations[i].deploymentStatus ]

getOrganizationByDomain(d) ==
  LET i == FirstByDomain(d)
  IN  IF i = 0 \/ organizations[i].deploymentStatus # "active"
      THEN Null
      ELSE [ _id              |-> i,
             projectUrl       |-> organizations[i].projectUrl,
             deploymentStatus |-> organizations[i].deploymentStatus ]

\* Mutant of createOrganization: the by_domain check is dropped.
createOrganizationUnchecked(domain, ownerClerkId) ==
  /\ NoneDone
  /\ organizations' = Append(organizations,
        [ domain           |-> domain,
          projectId        |-> "",
          projectUrl       |-> "",
          deploymentStatus |-> "provisioning",
          suspendedAt      |-> -1 ])
  /\ userOrganizations' = Append(userOrganizations,
        [ clerkUserId    |-> ownerClerkId,
          organizationId |-> Len(organizations) + 1,
          role           |-> "owner" ])
  /\ UNCHANGED << clientCache, nextClient, now, req >>
  /\ UNCHANGED beyondGateway

createOrganization(domain, ownerClerkId) ==
  /\ NoneDone
  /\ IF FirstByDomain(domain) # 0
     THEN \* throw new Error("Domain already exists")
          UNCHANGED << organizations, userOrganizations >>
     ELSE /\ organizations' = Append(organizations,
                [ domain           |-> domain,
                  projectId        |-> "",
                  projectUrl       |-> "",
                  deploymentStatus |-> "provisioning",
                  suspendedAt      |-> -1 ])
          /\ userOrganizations' = Append(userOrganizations,
                [ clerkUserId    |-> ownerClerkId,
                  organizationId |-> Len(organizations) + 1,
                  role           |-> "owner" ])
  /\ UNCHANGED << clientCache, nextClient, now, req >>
  /\ UNCHANGED beyondGateway

updateOrganizationProject(organizationId, projectId, projectUrl) ==
  /\ NoneDone
  /\ organizationId \in 1..Len(organizations)
  /\ organizations' = [organizations EXCEPT ![organizationId] =
        [@ EXCEPT !.projectId = projectId,
                  !.projectUrl = projectUrl,
                  !.deploymentStatus = "active",
                  !.suspendedAt = -1]]
  /\ UNCHANGED << userOrganizations, clientCache, nextClient, now, req >>
  /\ UNCHANGED beyondGateway

\* Administrative suspension, active -> suspended.  No mutation of the control
\* plane sets "suspended"; the status is named by the schema and the
\* transition by the design.  suspendedAt records when the current suspension
\* began (-1 while the organization is not suspended).
suspend(organizationId) ==
  /\ NoneDone
  /\ organizationId \in 1..Len(organizations)
  /\ organizations[organizationId].deploymentStatus = "active"
  /\ organizations' = [organizations EXCEPT ![organizationId] =
        [@ EXCEPT !.deploymentStatus = "suspended", !.suspendedAt = now]]
  /\ UNCHANGED << userOrganizations, clientCache, nextClient, now, req >>
  /\ UNCHANGED beyondGateway

\* ------------------------------------------------------------ gateway

NoEntry == [isNull |-> TRUE]

\* Mutant of CacheFresh: <= for <, an entry aged exactly CACHE_TTL is served.
CacheFreshInclusive(cached) ==
  /\ cached # NoEntry
  /\ now - cached.cachedAt <= CACHE_TTL

\* Mutant of CacheFresh: the cleanup's test (>) in place of the read's (<).
CacheFreshInverted(cached) ==
  /\ cached # NoEntry
  /\ now - cached.cachedAt > CACHE_TTL

\* cached && Date.now() - cached.cachedAt < CACHE_TTL
CacheFresh(cached) ==
  /\ cached # NoEntry
  /\ now - cached.cachedAt < CACHE_TTL

\* userOrgs.some((org: any) => org.org_slug === domain || org.org_id === org.clerkOrgId)
\* The arrow function's parameter org shadows the organization fetched from
\* the control plane: both sides of the second comparison read the entry.
hasAccess(userOrgs, domain) ==
  \E k \in 1..Len(userOrgs) :
     \/ userOrgs[k].org_slug = domain
     \/ userOrgs[k].org_id = userOrgs[k].clerkOrgId

IdleReq ==
  [ pc |-> "idle", domain |-> NoDomain, jwtPayload |-> Null, org |-> Null,
    response |-> "", hit |-> FALSE, convexClient |-> NoClient,
    projectUrl |-> Undefined, organizationId |-> 0 ]

\* return c.json({ error }, status)
Respond(r, error) ==
  req' = [req EXCEPT ![r].pc = "done", ![r].response = error]

\* routeToClient up to the await: domain check and cache check.  hit records
\* that the call was served from the cache.
routeToClient_begin(r, domain, jwt) ==
  /\ NoneDone
  /\ req[r].pc = "idle"
  /\ \A q \in Requests : q < r => req[q].pc # "idle"
  /\ LET started == [req[r] EXCEPT !.domain = domain, !.jwtPayload = jwt]
     IN  IF domain = NoDomain
         THEN req' = [req EXCEPT ![r] =
                 [started EXCEPT !.pc = "done",
                                 !.response = "Domain parameter required"]]
         ELSE IF CacheFresh(clientCache[domain])
         THEN req' = [req EXCEPT ![r] =
                 [started EXCEPT !.pc = "done",
                                 !.response = "next",
                                 !.hit = TRUE,
                                 !.convexClient = clientCache[domain].client,
                                 !.projectUrl = clientCache[domain].projectUrl]]
         ELSE req' = [req EXCEPT ![r] = [started EXCEPT !.pc = "query"]]
  /\ UNCHANGED << organizations, userOrganizations, clientCache, nextClient, now >>
  /\ UNCHANGED beyondGateway

\* The control plane runs the query.
routeToClient_query(r) ==
  /\ NoneDone
  /\ req[r].pc = "query"
  /\ req' = [req EXCEPT ![r].pc = "resume",
                        ![r].org = getOrganizationByDomain(req[r].domain)]
  /\ UNCHANGED << organizations, userOrganizations, clientCache, nextClient, now >>
  /\ UNCHANGED beyondGateway

\* The query rejects (network, control plane down): the catch block.
routeToClient_catch(r) ==
  /\ NoneDone
  /\ req[r].pc = "query"
  /\ Respond(r, "Failed to route request")
  /\ UNCHANGED << organizations, userOrganizations, clientCache, nextClient, now >>
  /\ UNCHANGED beyondGateway

\* Mutant of statusCheck: the status test inverted (=== for !==).
statusCheckInverted(org) ==
  IF org = Null THEN "Organization not found"
  ELSE IF org.deploymentStatus = "active" THEN "Organization not active"
  ELSE ""

\* if (!org) 404 'Organization not found';
\* if (org.deploymentStatus !== 'active') 403 'Organization not active'.
\* "" when both checks pass.
statusCheck(org) ==
  IF org = Null THEN "Organization not found"
  ELSE IF org.deploymentStatus # "active" THEN "Organization not active"
  ELSE ""

\* new ConvexHttpClient(address) validates its address (convex ^1.17) and
\* throws on one that is not an absolute http(s) URL; the throw lands in the
\* catch block of routeToClient.  projectUrl is v.string(): "" can be stored.
InvalidAddress(url) == url = ""

\* routeToClient after the await, with clientCache.set moved up to where the
\* organization has passed the status check: before the access check and
\* before the client is constructed.
resumeCachesBeforeAccessCheck(r) ==
  /\ NoneDone
  /\ req[r].pc = "resume"
  /\ LET org    == req[r].org
         domain == req[r].domain
         set    == [clientCache EXCEPT ![domain] =
                      [ client     |-> nextClient,
                        projectUrl |-> org.projectUrl,
                        cachedAt   |-> now ]]
     IN  IF statusCheck(org) # ""
         THEN /\ Respond(r, statusCheck(org))
              /\ UNCHANGED << clientCache, nextClient >>
         ELSE /\ nextClient' = nextClient + 1
              /\ clientCache' = set
              /\ IF ~ hasAccess(req[r].jwtPayload.org_memberships, domain)
                 THEN Respond(r, "Access denied to this organization")
                 ELSE IF InvalidAddress(org.projectUrl)
                 THEN Respond(r, "Failed to route request")
                 ELSE req' = [req EXCEPT ![r].pc = "done",
                                         ![r].response = "next",
                                         ![r].convexClient = nextClient,
                                         ![r].projectUrl = org.projectUrl,
                                         ![r].organizationId = org._id]
  /\ UNCHANGED << organizations, userOrganizations, now >>
  /\ UNCHANGED beyondGateway

\* routeToClient after the await.
routeToClient_resume(r) ==
  /\ NoneDone
  /\ req[r].pc = "resume"
  /\ LET org    == req[r].org
         domain == req[r].domain
     IN  IF statusCheck(org) # ""
         THEN /\ Respond(r, statusCheck(org))
              /\ UNCHANGED << clientCache, nextClient >>
         ELSE IF ~ hasAccess(req[r].jwtPayload.org_memberships, domain)
         THEN /\ Respond(r, "Access denied to this organization")
              /\ UNCHANGED << clientCache, nextClient >>
         ELSE IF InvalidAddress(org.projectUrl)
         THEN /\ Respond(r, "Failed to route request")
              /\ UNCHANGED << clientCache, nextClient >>
         ELSE /\ nextClient' = nextClient + 1
              /\ clientCache' = [clientCache EXCEPT ![domain] =
                    [ client     |-> nextClient,
                      projectUrl |-> org.projectUrl,
                      cachedAt   |-> now ]]
              /\ req' = [req EXCEPT ![r].pc = "done",
                                    ![r].response = "next",
                                    ![r].convexClient = nextClient,
                                    ![r].projectUrl = org.projectUrl,
                                    ![r].organizationId = org._id]
  /\ UNCHANGED << organizations, userOrganizations, now >>
  /\ UNCHANGED beyondGateway

\* The call has returned and its context is dropped.
requestEnds(r) ==
  /\ req[r].pc = "done"
  /\ req' = [req EXCEPT ![r] = [IdleReq EXCEPT !.pc = "ended"]]
  /\ UNCHANGED << organizations, userOrganizations, clientCache, nextClient, now >>
  /\ UNCHANGED beyondGateway

\* setInterval(() => { ... }, CACHE_TTL).  The timer starts when the module is
\* loaded, at no fixed time relative to the requests, and may fire late: the
\* cleanup may run at any time.
cacheCleanup ==
  /\ NoneDone
  /\ clientCache' = [d \in Domains |->
        IF clientCache[d] # NoEntry /\ now - clientCache[d].cachedAt > CACHE_TTL
        THEN NoEntry ELSE clientCache[d]]
  /\ UNCHANGED << organizations, userOrganizations, nextClient, now, req >>
  /\ UNCHANGED beyondGateway

\* Number of release/close calls the gateway makes on a client: there is none,
\* neither where clientCache.set replaces an entry nor where the cleanup
\* deletes one.
ReleaseCalls(client) == 0

Tick ==
  /\ NoneDone
  /\ now + TimeUnit <= MaxTime
  /\ now' = now + TimeUnit
  /\ UNCHANGED << organizations, userOrganizations, clientCache, nextClient, req >>
  /\ UNCHANGED beyondGateway

\* ------------------------------------------------------------ Express router
\* src/unnamed/part_001, the router of the control-plane package: it keeps a
\* client per projectUrl and asks the control plane on every request.

\* The request object as routeToClient receives it.
NewExpressReq ==
  [ pc |-> "idle", domain |-> NoDomain, org |-> Null,
    convexClient |-> NoClient, organizationDomain |-> Undefined,
    response |-> "" ]

\* A call that has not started, or has ended, holds no request object.
IdleExpressReq == [pc |-> "idle"]

\* getClientConnection(projectUrl): the Map after the call.  The client a
\* call creates is numbered after those the Map holds.
connectionsAfterGet(projectUrl) ==
  IF clientConnections[projectUrl] = NoClient
  THEN [clientConnections EXCEPT ![projectUrl] =
          1 + Cardinality({ u \in ProjectUrls : clientConnections[u] # NoClient })]
  ELSE clientConnections

\* routeToClient up to its await resolving: the control plane runs the query.
\* Nothing before the await reads shared state, so the start of the call and
\* the query are one step.
expressRouteToClient_query(r, domain) ==
  /\ xreq[r].pc = "idle"
  /\ \A q \in Requests : q < r => xreq[q].pc # "idle"
  /\ xreq' = [xreq EXCEPT ![r] =
        [NewExpressReq EXCEPT !.pc = "resume",
                               !.domain = domain,
                               !.org = getOrganizationByDomain(domain)]]
  /\ UNCHANGED << organizations, userOrganizations, clientCache, nextClient,
                  now, req, clientConnections >>
  /\ UNCHANGED beyondExpress

\* The query rejects.  The function has no try/catch: the returned promise
\* rejects and the request is answered by no line of this function.
expressRouteToClient_reject(r, domain) ==
  /\ xreq[r].pc = "idle"
  /\ \A q \in Requests : q < r => xreq[q].pc # "idle"
  /\ xreq' = [xreq EXCEPT ![r] =
        [NewExpressReq EXCEPT !.pc = "done",
                               !.domain = domain,
                               !.response = "unhandled rejection"]]
  /\ UNCHANGED << organizations, userOrganizations, clientCache, nextClient,
                  now, req, clientConnections >>
  /\ UNCHANGED beyondExpress

\* routeToClient after the await.
expressRouteToClient_resume(r) ==
  /\ xreq[r].pc = "resume"
  /\ LET org == xreq[r].org
     IN  IF org = Null
         THEN /\ xreq' = [xreq EXCEPT ![r].pc = "done",
                                      ![r].response = "Organization not found"]
              /\ UNCHANGED clientConnections
         ELSE IF InvalidAddress(org.projectUrl)
         THEN /\ xreq' = [xreq EXCEPT ![r].pc = "done",
                                      ![r].response = "unhandled rejection"]
              /\ UNCHANGED clientConnections
         ELSE /\ clientConnections' = connectionsAfterGet(org.projectUrl)
              /\ xreq' = [xreq EXCEPT
                    ![r].pc = "done",
                    ![r].response = "next",
                    ![r].convexClient = connectionsAfterGet(org.projectUrl)[org.projectUrl],
                    ![r].organizationDomain = xreq[r].domain]
  /\ UNCHANGED << organizations, userOrganizations, clientCache, nextClient,
                  now, req >>
  /\ UNCHANGED beyondExpress

\* The call has returned and its request object is dropped.
expressRequestEnds(r) ==
  /\ xreq[r].pc = "done"
  /\ xreq' = [xreq EXCEPT ![r] = [pc |-> "ended"]]
  /\ UNCHANGED << organizations, userOrganizations, clientCache, nextClient,
                  now, req, clientConnections >>
  /\ UNCHANGED beyondExpress

\* ------------------------------------------------------------ document ingestion
\* src/document-processing-pipeline.ts, client-template/convex/
\* documentIngestion.ts: the mutations of a client project.  A mutation is
\* one transaction: one that throws leaves no write behind.

Checksums == {"sha_a", "sha_b"}
Identities == { [subject |-> "user_1"] }   \* ctx.auth.getUserIdentity(), Null when absent
ProcessingConfigs ==
  { [useChunkr |-> TRUE,  useDocling |-> FALSE],
    [useChunkr |-> FALSE, useDocling |-> TRUE] }
ConversionStages == {"chunkr", "docling"}   \* args.stage
Absent == "absent"                           \* stages.<name> undefined

\* Markdown as its lines; a line as its kind and its text.
Line(kind, text) == [kind |-> kind, text |-> text]
Markdowns ==
  { << Line("text", "Filed on Monday.") >>,
    << Line("header", "# Facts"), Line("blank", ""), Line("list", "- one") >> }
EntityBatches == { << >>, << "Jane Doe" >> }   \* args.entities, by name

\* Every markdown of up to MaxLines lines: each line a header, a list item,
\* blank or plain text, with a text that names its position.
LineKinds == {"header", "list", "blank", "text"}
textOf(kind, k) ==
  CASE kind = "header" -> "# h" \o ToString(k)
    [] kind = "list"   -> "- l" \o ToString(k)
    [] kind = "blank"  -> ""
    [] kind = "text"   -> "t" \o ToString(k)
AllMarkdowns ==
  UNION { { [k \in 1..n |-> Line(kinds[k], textOf(kinds[k], k))] :
              kinds \in [1..n -> LineKinds] } : n \in 0..MaxLines }

\* A variant of chunkRow that numbers the chunks from 1.
chunkRowFromOne(ingestionId, chunkIndex, currentType, currentChunk) ==
  [ ingestionId |-> ingestionId, chunkIndex |-> chunkIndex + 1,
    chunkType |-> currentType, content |-> currentChunk ]

\* parseAndStoreChunks: the rows inserted for markdownContent.  A string is
\* the sequence of the pieces it was concatenated from; '' is << >>.
chunkRow(ingestionId, chunkIndex, currentType, currentChunk) ==
  [ ingestionId |-> ingestionId, chunkIndex |-> chunkIndex,
    chunkType |-> currentType, content |-> currentChunk ]

RECURSIVE parseLines(_, _, _, _, _, _, _)
parseLines(ingestionId, lines, k, currentChunk, chunkIndex, currentType, rows) ==
  IF k > Len(lines)
  THEN IF currentChunk # << >>
       THEN Append(rows, chunkRow(ingestionId, chunkIndex, currentType, currentChunk))
       ELSE rows
  ELSE LET line == lines[k]
       IN  IF line.kind = "header"
           THEN IF currentChunk # << >>
                THEN parseLines(ingestionId, lines, k + 1, << line.text >>,
                        chunkIndex + 1, "header",
                        Append(rows, chunkRow(ingestionId, chunkIndex,
                                              currentType, currentChunk)))
                ELSE parseLines(ingestionId, lines, k + 1, << line.text >>,
                        chunkIndex, "header", rows)
           ELSE IF line.kind = "list"
           THEN parseLines(ingestionId, lines, k + 1,
                   currentChunk \o << "\n", line.text >>,
                   chunkIndex, "list", rows)
           ELSE IF line.kind = "blank"
           THEN IF currentChunk # << >>
                THEN parseLines(ingestionId, lines, k + 1, << >>,
                        chunkIndex + 1, "paragraph",
                        Append(rows, chunkRow(ingestionId, chunkIndex,
                                              currentType, currentChunk)))
                ELSE parseLines(ingestionId, lines, k + 1, currentChunk,
                        chunkIndex, currentType, rows)
           ELSE parseLines(ingestionId, lines, k + 1,
                   currentChunk \o << "\n", line.text >>,
                   chunkIndex, currentType, rows)

parseAndStoreChunks(ingestionId, markdownContent) ==
  parseLines(ingestionId, markdownContent, 1, << >>, 0, "paragraph", << >>)

\* .withIndex("by_checksum", q => q.eq("sourceChecksum", checksum)).first()
FirstByChecksum(checksum) ==
  LET hits == { i \in 1..Len(documentIngestion) :
                  documentIngestion[i].sourceChecksum = checksum }
  IN  IF hits = {} THEN 0 ELSE CHOOSE i \in hits : \A j \in hits : i <= j

\* wrapApi's audit insert after the handler returned.
auditRow(action) == [action |-> action]

\* A variant of startIngestion without the lookup by checksum.
startIngestionUnchecked(identity, checksum, processingConfig) ==
  /\ Len(auditLogs) < MaxAudits
  /\ IF identity = Null
     THEN UNCHANGED << documentIngestion, processingQueue, auditLogs >>
     ELSE /\ documentIngestion' = Append(documentIngestion,
                [ sourceChecksum |-> checksum,
                  status         |-> "uploaded",
                  stages         |->
                    [ chunkr  |-> IF processingConfig # Null
                                     /\ processingConfig.useChunkr
                                  THEN "pending" ELSE Absent,
                      docling |-> IF processingConfig # Null
                                     /\ processingConfig.useDocling
                                  THEN "pending" ELSE Absent,
                      docetl  |-> "pending" ],
                  markdownContent |-> NotSupplied,
                  entityCount    |-> 0 ])
          /\ processingQueue' = Append(processingQueue,
                [ ingestionId      |-> Len(documentIngestion) + 1,
                  priority         |-> 5,
                  status           |-> "queued",
                  processingConfig |->
                    IF processingConfig # Null THEN processingConfig
                    ELSE [useChunkr |-> TRUE, useDocling |-> FALSE],
                  attempts         |-> 0 ])
          /\ auditLogs' = Append(auditLogs, auditRow("document.ingestion_started"))
  /\ UNCHANGED << documentChunks, entities >>
  /\ UNCHANGED << controlVars, gatewayVars, expressVars, beyondPipeline >>

\* startIngestion, wrapped by wrapApi({requireAuth, auditAction}).
\* processingConfig is optional: Null when not supplied.
startIngestion(identity, checksum, processingConfig) ==
  /\ Len(auditLogs) < MaxAudits
  /\ IF identity = Null \/ FirstByChecksum(checksum) # 0
     THEN \* throw "Unauthenticated" / "Document already ingested"
          UNCHANGED << documentIngestion, processingQueue, auditLogs >>
     ELSE /\ documentIngestion' = Append(documentIngestion,
                [ sourceChecksum |-> checksum,
                  status         |-> "uploaded",
                  stages         |->
                    [ chunkr  |-> IF processingConfig # Null
                                     /\ processingConfig.useChunkr
                                  THEN "pending" ELSE Absent,
                      docling |-> IF processingConfig # Null
                                     /\ processingConfig.useDocling
                                  THEN "pending" ELSE Absent,
                      docetl  |-> "pending" ],
                  markdownContent |-> NotSupplied,
                  entityCount    |-> 0 ])
          /\ processingQueue' = Append(processingQueue,
                [ ingestionId      |-> Len(documentIngestion) + 1,
                  priority         |-> 5,
                  status           |-> "queued",
                  processingConfig |->
                    IF processingConfig # Null THEN processingConfig
                    ELSE [useChunkr |-> TRUE, useDocling |-> FALSE],
                  attempts         |-> 0 ])
          /\ auditLogs' = Append(auditLogs, auditRow("document.ingestion_started"))
  /\ UNCHANGED << documentChunks, entities >>
  /\ UNCHANGED << controlVars, gatewayVars, expressVars, beyondPipeline >>

\* storeMarkdownContent (not wrapped): the stage named by args.stage is
\* marked completed and the chunks of the content are inserted.
storeMarkdownContent(ingestionId, markdownContent, stage) ==
  /\ Len(documentChunks) + Len(parseAndStoreChunks(ingestionId, markdownContent))
        <= MaxChunks
  /\ IF ingestionId \notin 1..Len(documentIngestion)
     THEN \* throw "Ingestion not found"
          UNCHANGED << documentIngestion, documentChunks >>
     ELSE /\ documentIngestion' = [documentIngestion EXCEPT
                ![ingestionId].markdownContent = << markdownContent >>,
                ![ingestionId].stages[stage] = "completed"]
          /\ documentChunks' = documentChunks \o
                parseAndStoreChunks(ingestionId, markdownContent)
  /\ UNCHANGED << processingQueue, entities, auditLogs >>
  /\ UNCHANGED << controlVars, gatewayVars, expressVars, beyondPipeline >>

\* storeExtractedEntities, wrapped by wrapApi({requireAuth, auditAction}).
\* The ingestions carry no caseId (startIngestion's optional argument is not
\* supplied), so autoLinkEntitiesToCase is not reached.
storeExtractedEntities(identity, ingestionId, batch) ==
  /\ Len(auditLogs) < MaxAudits
  /\ Len(entities) + Len(batch) <= MaxEntities
  /\ IF identity = Null \/ ingestionId \notin 1..Len(documentIngestion)
     THEN \* throw "Unauthenticated" / "Ingestion not found"
          UNCHANGED << documentIngestion, entities, auditLogs >>
     ELSE /\ entities' = entities \o
                [k \in 1..Len(batch) |->
                   [ingestionId |-> ingestionId, name |-> batch[k]]]
          /\ documentIngestion' = [documentIngestion EXCEPT
                ![ingestionId].stages.docetl = "completed",
                ![ingestionId].entityCount = Len(batch),
                ![ingestionId].status = "completed"]
          /\ auditLogs' = Append(auditLogs, auditRow("entities.extracted"))
  /\ UNCHANGED << processingQueue, documentChunks >>
  /\ UNCHANGED << controlVars, gatewayVars, expressVars, beyondPipeline >>

\* ------------------------------------------------------------ rate limiter
\* src/unnamed/part_003, api-gateway/src/middleware/rateLimiter.ts and the
\* middleware registration of the gateway's app.  Hono runs the middleware
\* matching a request in the order of registration: rateLimiter ('*', line
\* 638) first, then jwt ('/api/*', line 650), which is what stores
\* jwtPayload in the context, then the route's handler.

RATE_LIMITS ==
  [ small      |-> [requests |-> 1000,  window |-> 3600],
    mid        |-> [requests |-> 5000,  window |-> 3600],
    enterprise |-> [requests |-> 50000, window |-> 3600] ]

UserIds == {"user_1", "user_2"}
Windows == 0..MaxWindows

\* The verified content of the bearer token a request carries; Null for a
\* request without one.
Tokens ==
  { [sub |-> "user_1", org_metadata |-> [plan |-> "small"]],
    [sub |-> "user_2", org_metadata |-> [plan |-> "enterprise"]] }
Paths == {"/health", "/api/v1/acme/cases"}

\* `rate_limit:${userId}:${window index}`: the pair it is built from.
RateLimitKey(userId, w) == << userId, w >>
RateLimitKeys == (UserIds \cup {"anonymous"}) \X Windows

\* The value of a key, 0 for a key that does not exist (what INCR starts
\* from); redis and made are defined on the keys that exist.
countAt(counters, k) == IF k \in DOMAIN counters THEN counters[k].count ELSE 0
withKey(counters, k, v) ==
  [x \in DOMAIN counters \cup {k} |-> IF x = k THEN v ELSE counters[x]]

\* The context of a request as the first middleware receives it.
NewLimiterReq ==
  [ pc |-> "idle", token |-> Null, path |-> "", jwtPayload |-> Null,
    plan |-> "", userId |-> "", key |-> << >>, count |-> 0,
    remaining |-> << >>, response |-> "" ]

\* A request that has not arrived, or has been answered, holds no context.
IdleLimiterReq == [pc |-> "idle"]

\* c.get('jwtPayload')?.org_metadata?.plan || 'small'
planOf(jwtPayload) ==
  IF jwtPayload = Null THEN "small" ELSE jwtPayload.org_metadata.plan

\* c.get('jwtPayload')?.sub || 'anonymous'
userIdOf(jwtPayload) ==
  IF jwtPayload = Null THEN "anonymous" ELSE jwtPayload.sub

\* rateLimiter up to the await of redis.incr.  The context is the one the
\* earlier middleware (logger, cors) left: it holds no jwtPayload.
rateLimiter_begin(r, token, path) ==
  /\ lreq[r].pc = "idle"
  /\ \A q \in Requests : q < r => lreq[q].pc # "idle"
  /\ LET started == [NewLimiterReq EXCEPT !.token = token, !.path = path]
     IN  IF path = "/health"
         THEN lreq' = [lreq EXCEPT ![r] =
                 [started EXCEPT !.pc = "done", !.response = "healthy"]]
         ELSE lreq' = [lreq EXCEPT ![r] =
                 [started EXCEPT
                    !.pc = "incr",
                    !.plan = planOf(started.jwtPayload),
                    !.userId = userIdOf(started.jwtPayload),
                    !.key = RateLimitKey(userIdOf(started.jwtPayload), window)]]
  /\ UNCHANGED << redis, window, made, passed >>
  /\ UNCHANGED << controlVars, gatewayVars, expressVars, pipelineVars,
               beyondLimiter >>

\* redis.incr(key): atomic at the server.
rateLimiter_incr(r) ==
  /\ lreq[r].pc = "incr"
  /\ LET key    == lreq[r].key
         count  == countAt(redis, key) + 1
         sender == << userIdOf(lreq[r].token), key[2] >>
     IN  /\ redis' = withKey(redis, key,
                       [ count   |-> count,
                         expires |-> key \in DOMAIN redis /\ redis[key].expires ])
         /\ lreq' = [lreq EXCEPT ![r].count = count,
                                 ![r].pc = IF count = 1 THEN "expire" ELSE "check"]
         /\ made' = withKey(made, sender, [count |-> countAt(made, sender) + 1])
  /\ UNCHANGED << window, passed >>
  /\ UNCHANGED << controlVars, gatewayVars, expressVars, pipelineVars,
               beyondLimiter >>

\* redis.expire(key, limits.window)
rateLimiter_expire(r) ==
  /\ lreq[r].pc = "expire"
  /\ redis' = IF lreq[r].key \in DOMAIN redis
               THEN [redis EXCEPT ![lreq[r].key].expires = TRUE]
               ELSE redis
  /\ lreq' = [lreq EXCEPT ![r].pc = "check"]
  /\ UNCHANGED << window, made, passed >>
  /\ UNCHANGED << controlVars, gatewayVars, expressVars, pipelineVars,
               beyondLimiter >>

\* A Redis call rejects: the catch block lets the request through.
rateLimiter_catch(r) ==
  /\ lreq[r].pc \in {"incr", "expire"}
  /\ lreq' = [lreq EXCEPT ![r].pc = "jwt"]
  /\ UNCHANGED << redis, window, made, passed >>
  /\ UNCHANGED << controlVars, gatewayVars, expressVars, pipelineVars,
               beyondLimiter >>

\* (n).toString() of an integer: the sign and the decimal numeral of its
\* magnitude, kept as that pair.
toString(n) == IF n < 0 THEN << "-", 0 - n >> ELSE << "", n >>

\* A variant of rateLimiter_check that lets through one request more.
rateLimiter_checkInclusive(r) ==
  /\ lreq[r].pc = "check"
  /\ LET limits == RATE_LIMITS[lreq[r].plan]
     IN  IF lreq[r].count > limits.requests + 1
         THEN /\ lreq' = [lreq EXCEPT ![r].pc = "done",
                                      ![r].response = "Rate limit exceeded"]
              /\ UNCHANGED passed
         ELSE /\ lreq' = [lreq EXCEPT
                           ![r].pc = "jwt",
                           ![r].remaining = toString(limits.requests - lreq[r].count)]
              /\ passed' = withKey(passed, << lreq[r].key, window >>,
                              [ count |-> countAt(passed, << lreq[r].key, window >>) + 1,
                                requests |-> limits.requests ])
  /\ UNCHANGED << redis, window, made >>
  /\ UNCHANGED << controlVars, gatewayVars, expressVars, pipelineVars,
               beyondLimiter >>

\* if (count > limits.requests) 429; else the headers and next().
rateLimiter_check(r) ==
  /\ lreq[r].pc = "check"
  /\ LET limits == RATE_LIMITS[lreq[r].plan]
     IN  IF lreq[r].count > limits.requests
         THEN /\ lreq' = [lreq EXCEPT ![r].pc = "done",
                                      ![r].response = "Rate limit exceeded"]
              /\ UNCHANGED passed
         ELSE /\ lreq' = [lreq EXCEPT
                           ![r].pc = "jwt",
                           ![r].remaining = toString(limits.requests - lreq[r].count)]
              /\ passed' = withKey(passed, << lreq[r].key, window >>,
                              [ count |-> countAt(passed, << lreq[r].key, window >>) + 1,
                                requests |-> limits.requests ])
  /\ UNCHANGED << redis, window, made >>
  /\ UNCHANGED << controlVars, gatewayVars, expressVars, pipelineVars,
               beyondLimiter >>

\* The jwt middleware, reached through next(): it refuses a request without
\* a token and stores the payload of a verified one; the handler answers.
jwtVerify(r) ==
  /\ lreq[r].pc = "jwt"
  /\ IF lreq[r].token = Null
     THEN lreq' = [lreq EXCEPT ![r].pc = "done", ![r].response = "Unauthorized"]
     ELSE lreq' = [lreq EXCEPT ![r].pc = "done",
                               ![r].jwtPayload = lreq[r].token,
                               ![r].response = "ok"]
  /\ UNCHANGED << redis, window, made, passed >>
  /\ UNCHANGED << controlVars, gatewayVars, expressVars, pipelineVars,
               beyondLimiter >>

\* The response is sent and the context dropped.
limitedRequestEnds(r) ==
  /\ lreq[r].pc = "done"
  /\ lreq' = [lreq EXCEPT ![r] = [pc |-> "ended"]]
  /\ UNCHANGED << redis, window, made, passed >>
  /\ UNCHANGED << controlVars, gatewayVars, expressVars, pipelineVars,
               beyondLimiter >>

\* An hour boundary passes: Date.now() / 1000 / 3600 reaches the next integer.
windowTurns ==
  /\ window < MaxWindows
  /\ window' = window + 1
  /\ UNCHANGED << redis, lreq, made, passed >>
  /\ UNCHANGED << controlVars, gatewayVars, expressVars, pipelineVars,
               beyondLimiter >>

\* Redis drops a key whose expiry has passed; the expiry of a key was set
\* within its window, one window length ahead.
redisExpires(k) ==
  /\ k \in DOMAIN redis
  /\ redis[k].expires
  /\ k[2] < window
  /\ redis' = [x \in DOMAIN redis \ {k} |-> redis[x]]
  /\ UNCHANGED << window, lreq, made, passed >>
  /\ UNCHANGED << controlVars, gatewayVars, expressVars, pipelineVars,
               beyondLimiter >>

\* ------------------------------------------------------- background jobs
\* client-template/convex/lib/jobs.ts.  An optional argument or field is a
\* sequence: << >> when it is not supplied, << x >> when it is x.

BatchLimit == 10                      \* .take(10)
Priorities == {NotSupplied, << 0 >>, << 3 >>, << 10 >>}
Schedules  == {NotSupplied, << MaxProjectTime >>}

\* a || b for numbers: b when a is undefined or 0 (NaN is not an input).
orElse(a, b) == IF a = NotSupplied \/ a[1] = 0 THEN b ELSE a[1]

\* createJob: one insert.
createJob(priority, scheduledFor) ==
  /\ Len(backgroundJobs) \notin {MaxJobs, BatchLimit + MaxJobs}
  /\ backgroundJobs' = Append(backgroundJobs,
        [ status       |-> "pending",
          attempts     |-> 0,
          priority     |-> orElse(priority, 5),
          scheduledFor |-> scheduledFor,
          createdAt    |-> projectNow ])
  /\ UNCHANGED << projectNow, returnedJobs >>
  /\ UNCHANGED << controlVars, gatewayVars, expressVars, pipelineVars,
                  limiterVars, wrapVars, cacheVars >>

\* q.or(q.eq(scheduledFor, undefined), q.lte(scheduledFor, now))
readyAt(job, t) ==
  job.scheduledFor = NotSupplied \/ job.scheduledFor[1] <= t

\* .withIndex("by_status", q => q.eq("status", "pending")).filter(...)
\* .order("desc"): the ids of the pending rows that pass the filter, the
\* last inserted first, from row k downwards.
RECURSIVE pendingReadyDesc(_, _, _)
pendingReadyDesc(jobs, t, k) ==
  IF k = 0 THEN << >>
  ELSE IF jobs[k].status = "pending" /\ readyAt(jobs[k], t)
       THEN << k >> \o pendingReadyDesc(jobs, t, k - 1)
       ELSE pendingReadyDesc(jobs, t, k - 1)

\* .take(n)
take(ids, n) == SubSeq(ids, 1, IF Len(ids) < n THEN Len(ids) ELSE n)

\* .sort((a, b) => b.priority - a.priority): Array.prototype.sort is
\* stable, so jobs of equal priority keep their order.  Insertion of the
\* elements from the left, each behind those that do not sort after it.
insertByPriority(jobs, sorted, id) ==
  LET k == Cardinality({ i \in 1..Len(sorted) :
                           jobs[sorted[i]].priority >= jobs[id].priority })
  IN  SubSeq(sorted, 1, k) \o << id >> \o SubSeq(sorted, k + 1, Len(sorted))

RECURSIVE sortByPriority(_, _, _, _)
sortByPriority(jobs, ids, k, sorted) ==
  IF k > Len(ids) THEN sorted
  ELSE sortByPriority(jobs, ids, k + 1, insertByPriority(jobs, sorted, ids[k]))

\* What processPendingJobs returns for a table read at time t.
pendingJobsAt(jobs, t) ==
  sortByPriority(jobs, take(pendingReadyDesc(jobs, t, Len(jobs)), BatchLimit),
                 1, << >>)

\* processPendingJobs: a query, it writes nothing.
processPendingJobs ==
  /\ returnedJobs' = pendingJobsAt(backgroundJobs, projectNow)
  /\ UNCHANGED << backgroundJobs, projectNow >>
  /\ UNCHANGED << controlVars, gatewayVars, expressVars, pipelineVars,
                  limiterVars, wrapVars, cacheVars >>

\* Time passes in the client project.
projectTick ==
  /\ projectNow < MaxProjectTime
  /\ projectNow' = projectNow + 1
  /\ UNCHANGED << backgroundJobs, returnedJobs >>
  /\ UNCHANGED << controlVars, gatewayVars, expressVars, pipelineVars,
                  limiterVars, wrapVars, cacheVars >>

\* No job has been created.
JobsCold == backgroundJobs = << >>

\* BatchLimit jobs were created earlier, at time 0 and to run at once: the
\* first with the given priority, the others with none supplied.
JobsBacklog(priority) ==
  backgroundJobs =
     [ k \in 1..BatchLimit |->
         [ status       |-> "pending",
           attempts     |-> 0,
           priority     |-> IF k = 1 THEN orElse(priority, 5) ELSE orElse(NotSupplied, 5),
           scheduledFor |-> NotSupplied,
           createdAt    |-> 0 ] ]

\* ------------------------------------------------------------- wrapApi
\* client-template/convex/lib/apiWrapper.ts.  A function built by wrapApi
\* runs as one Convex query or mutation: a mutation that throws writes
\* nothing.  The handler it wraps is any handler: whether it returns or
\* throws, and whether the call took more than a second, are inputs.

Features == {"ai_features"}
AuditActions == {"case.created"}
WrapOptions ==
  [ requireAuth : BOOLEAN,
    auditAction : {NotSupplied} \cup { << a >> : a \in AuditActions },
    featureFlag : {NotSupplied} \cup { << f >> : f \in Features } ]
CtxKinds == {"query", "mutation"}      \* QueryCtx | MutationCtx
HandlerOutcomes == {"returns", "throws"}

NoCall ==
  [ n |-> 0, options |-> NotSupplied, kind |-> "", identity |-> Null,
    handlerRan |-> FALSE, handlerReturned |-> FALSE, thrown |-> "" ]

\* The rows the featureFlags table can hold for a feature (no function
\* under convex/ writes the table).
FlagTables ==
  { << >> } \cup
  { << [feature |-> f, enabled |-> e] >> : f \in Features, e \in BOOLEAN }

NoFlags == featureFlags = << >>

\* .withIndex("by_feature", q => q.eq("feature", feature)).first(), then
\* !flag?.enabled
flagEnabled(feature) ==
  LET hits == { i \in 1..Len(featureFlags) : featureFlags[i].feature = feature }
  IN  /\ hits # {}
      /\ featureFlags[CHOOSE i \in hits : \A j \in hits : i <= j].enabled

\* "db" in ctx: QueryCtx and MutationCtx both have the property.
dbInCtx(kind) == kind \in {"query", "mutation"}

\* ctx.db.insert exists on the database writer of a mutation only; on the
\* reader of a query the call is a TypeError.
canInsert(kind) == kind = "mutation"

systemEventRow(eventType, source) ==
  [ eventType |-> eventType,
    source    |-> IF source = NotSupplied THEN "unknown" ELSE source[1] ]

wrapApi(options, kind, identity, handlerOutcome, slow) ==
  /\ wrapped.n < MaxCalls
  /\ Len(auditLogs) < MaxAudits
  /\ Len(systemEvents) < MaxEvents
  /\ LET call == [ n |-> wrapped.n + 1, options |-> options, kind |-> kind,
                   identity |-> identity, handlerRan |-> FALSE,
                   handlerReturned |-> FALSE, thrown |-> "" ]
     IN
     IF options.requireAuth /\ identity = Null
     THEN /\ wrapped' = [call EXCEPT !.thrown = "Unauthenticated"]
          /\ UNCHANGED << auditLogs, systemEvents >>
     ELSE IF options.featureFlag # NotSupplied
             /\ ~ flagEnabled(options.featureFlag[1])
     THEN /\ wrapped' = [call EXCEPT !.thrown = "Feature not enabled"]
          /\ UNCHANGED << auditLogs, systemEvents >>
     ELSE IF handlerOutcome = "throws"
     THEN \* catch: the systemEvents insert, then throw error
          /\ wrapped' = [call EXCEPT
                 !.handlerRan = TRUE,
                 !.thrown = IF dbInCtx(kind) /\ ~ canInsert(kind)
                            THEN "TypeError" ELSE "handler error"]
          /\ UNCHANGED << auditLogs, systemEvents >>
     ELSE IF \/ options.auditAction # NotSupplied /\ dbInCtx(kind)
                  /\ ~ canInsert(kind)
             \/ slow /\ ~ canInsert(kind)
     THEN \* an insert inside try fails, and the one in catch fails again
          /\ wrapped' = [call EXCEPT !.handlerRan = TRUE,
                                     !.handlerReturned = TRUE,
                                     !.thrown = "TypeError"]
          /\ UNCHANGED << auditLogs, systemEvents >>
     ELSE /\ wrapped' = [call EXCEPT !.handlerRan = TRUE,
                                     !.handlerReturned = TRUE]
          /\ auditLogs' =
                IF options.auditAction # NotSupplied /\ dbInCtx(kind)
                THEN Append(auditLogs, auditRow(options.auditAction[1]))
                ELSE auditLogs
          /\ systemEvents' =
                IF slow
                THEN Append(systemEvents,
                            systemEventRow("performance", options.auditAction))
                ELSE systemEvents
  /\ UNCHANGED featureFlags
  /\ UNCHANGED << documentIngestion, processingQueue, documentChunks, entities >>
  /\ UNCHANGED << controlVars, gatewayVars, expressVars, limiterVars, jobsVars,
                  cacheVars >>

\* ----------------------------------------------------------- withCache
\* client-template/convex/performance/cache.ts.  A function built by
\* withCache runs as one Convex function: listCasesCached is a query; ctx
\* is typed any, so a mutation can be built the same way.  What queryFn
\* returns when it is executed is an input.

CACHE_CONFIGS ==
  [ userProfile      |-> [ttl |-> 5 * 60 * 1000],
    caseList         |-> [ttl |-> 60 * 1000],
    documentMetadata |-> [ttl |-> 10 * 60 * 1000],
    aiSummary        |-> [ttl |-> 60 * 60 * 1000] ]

\* The client project's clock advances in steps of half the caseList ttl.
ProjectTimeUnit == CACHE_CONFIGS["caseList"].ttl \div 2
DateNow == projectNow * ProjectTimeUnit

CacheArgs == { [status |-> NotSupplied], [status |-> << "active" >>] }
QueryResults == {"cases_v1", "cases_v2"}

\* JSON.stringify(args): an undefined property is left out.
JSONstringify(args) ==
  IF args.status = NotSupplied THEN "{}"
  ELSE "{\"status\":\"" \o args.status[1] \o "\"}"

\* `${cacheKey}:${JSON.stringify(args)}`
cacheIdOf(cacheKey, args) == cacheKey \o ":" \o JSONstringify(args)

\* .withIndex("by_key", q => q.eq("key", cacheId)).first(); 0 for null
firstByKey(cacheId) ==
  LET hits == { i \in 1..Len(cache) : cache[i].key = cacheId }
  IN  IF hits = {} THEN 0 ELSE CHOOSE i \in hits : \A j \in hits : i <= j

\* ctx.scheduler exists in a mutation; a QueryCtx has none.
hasScheduler(kind) == kind = "mutation"

NoCachedCall ==
  [ n |-> 0, kind |-> "", cacheId |-> "", executed |-> 0,
    returned |-> NotSupplied, thrown |-> "" ]

withCache(cacheKey, kind, args, result) ==
  /\ cacheCall.n < MaxCalls
  /\ LET cacheId == cacheIdOf(cacheKey, args)
         cached  == firstByKey(cacheId)
         call    == [ n |-> cacheCall.n + 1, kind |-> kind, cacheId |-> cacheId,
                      executed |-> 0, returned |-> NotSupplied, thrown |-> "" ]
     IN
     IF cached # 0
        /\ DateNow - cache[cached].createdAt < CACHE_CONFIGS[cacheKey].ttl
     THEN \* hit: ctx.scheduler.runAfter, then return cached.value
          /\ cacheCall' =
                IF hasScheduler(kind)
                THEN [call EXCEPT !.returned = << cache[cached].value >>]
                ELSE [call EXCEPT !.thrown = "TypeError"]
          /\ UNCHANGED cache
     ELSE \* miss: queryFn, then the patch or the insert
          IF ~ canInsert(kind)
          THEN /\ cacheCall' = [call EXCEPT !.executed = 1,
                                            !.thrown = "TypeError"]
               /\ UNCHANGED cache
          ELSE /\ cache' =
                     IF cached # 0
                     THEN [cache EXCEPT ![cached].value = result,
                                        ![cached].createdAt = DateNow]
                     ELSE Append(cache, [ key |-> cacheId, value |-> result,
                                          createdAt |-> DateNow ])
               /\ cacheCall' =
                     IF hasScheduler(kind)
                     THEN [call EXCEPT !.executed = 1, !.returned = << result >>]
                     ELSE [call EXCEPT !.executed = 1, !.thrown = "TypeError"]
  /\ UNCHANGED << controlVars, gatewayVars, expressVars, pipelineVars,
                  limiterVars, jobsVars, wrapVars >>

\* ------------------------------------------------------------ specification

\* Redis holds no key, no request has been counted.
LimiterCold ==
  /\ redis = << >>
  /\ made = << >>
  /\ passed = << >>

\* The state in which one user's earlier requests of the first window have
\* been counted: rateLimiter has run `earlier` times, the counter it
\* incremented each time stands at `earlier`, with the expiry set by the
\* first of them.
LimiterWarm(earlier, userId) ==
  IF earlier = 0
  THEN LimiterCold
  ELSE /\ redis = withKey(<< >>, RateLimitKey("anonymous", 0),
                          [count |-> earlier, expires |-> TRUE])
       /\ made = withKey(<< >>, << userId, 0 >>, [count |-> earlier])
       /\ passed = withKey(<< >>, << RateLimitKey("anonymous", 0), 0 >>,
                      [ count    |-> earlier,
                        requests |-> RATE_LIMITS["small"].requests ])

InitPrograms ==
  /\ organizations = << >>
  /\ userOrganizations = << >>
  /\ clientCache = [d \in Domains |-> NoEntry]
  /\ nextClient = 1
  /\ now = 0
  /\ req = [r \in Requests |-> IdleReq]
  /\ clientConnections = [u \in ProjectUrls |-> NoClient]
  /\ xreq = [r \in Requests |-> IdleExpressReq]
  /\ documentIngestion = << >>
  /\ processingQueue = << >>
  /\ documentChunks = << >>
  /\ entities = << >>
  /\ auditLogs = << >>
  /\ window = 0
  /\ lreq = [r \in Requests |-> IdleLimiterReq]
  /\ projectNow = 0
  /\ returnedJobs = << >>
  /\ systemEvents = << >>
  /\ wrapped = NoCall
  /\ cache = << >>
  /\ cacheCall = NoCachedCall

Init == InitPrograms /\ LimiterCold /\ JobsCold /\ NoFlags

Next ==
  \/ \E d \in OrgDomains, o \in OwnerIds : createOrganization(d, o)
  \/ \E i \in OrgIds, p \in ProjectIds, u \in ProjectUrls :
        updateOrganizationProject(i, p, u)
  \/ \E i \in OrgIds : suspend(i)
  \/ \E r \in Requests, d \in Domains \cup {NoDomain}, j \in JwtPayloads :
        routeToClient_begin(r, d, j)
  \/ \E r \in Requests : routeToClient_query(r)
  \/ \E r \in Requests : routeToClient_catch(r)
  \/ \E r \in Requests : routeToClient_resume(r)
  \/ \E r \in Requests : requestEnds(r)
  \/ cacheCleanup
  \/ Tick

Spec == Init /\ [][Next]_vars

\* The gateway while tenants stay active and the control plane answers: no
\* suspension, no rejected lookup, and deployments with an address.  Node's
\* event loop runs every continuation that is ready: the query of a call that
\* awaits it is answered, the code after the await runs, and a call that has
\* returned is dropped.
DeployedUrls == { u \in ProjectUrls : ~ InvalidAddress(u) }

NextAnswered ==
  \/ \E d \in OrgDomains, o \in OwnerIds : createOrganization(d, o)
  \/ \E i \in OrgIds, p \in ProjectIds, u \in DeployedUrls :
        updateOrganizationProject(i, p, u)
  \/ \E r \in Requests, d \in Domains, j \in JwtPayloads :
        routeToClient_begin(r, d, j)
  \/ \E r \in Requests : routeToClient_query(r)
  \/ \E r \in Requests : routeToClient_resume(r)
  \/ \E r \in Requests : requestEnds(r)
  \/ cacheCleanup
  \/ Tick

EventLoop ==
  \A r \in Requests :
     /\ WF_vars(routeToClient_query(r))
     /\ WF_vars(routeToClient_resume(r))
     /\ WF_vars(requestEnds(r))

SpecAnswered == Init /\ [][NextAnswered]_vars /\ EventLoop

\* The gateway serving several tenants.  provisionNewClient creates one
\* Convex project per organization (named after its domain) and registers
\* that project's URL for it.
ProjectUrlOf(domain) == "https://legal-" \o domain \o ".convex.cloud"

provisionNewClient(organizationId) ==
  /\ organizationId \in 1..Len(organizations)
  /\ updateOrganizationProject(organizationId, "proj_" \o organizations[organizationId].domain,
                               ProjectUrlOf(organizations[organizationId].domain))

NextTenants ==
  \/ \E d \in Domains, o \in OwnerIds : createOrganization(d, o)
  \/ \E i \in AnyOrgIds : provisionNewClient(i)
  \/ \E r \in Requests, d \in Domains, j \in JwtPayloads :
        routeToClient_begin(r, d, j)
  \/ \E r \in Requests : routeToClient_query(r)
  \/ \E r \in Requests : routeToClient_catch(r)
  \/ \E r \in Requests : routeToClient_resume(r)
  \/ \E r \in Requests : requestEnds(r)
  \/ cacheCleanup
  \/ Tick

SpecTenants == Init /\ [][NextTenants]_vars

\* The Express router with the control plane.
NextExpress ==
  \/ \E d \in OrgDomains, o \in OwnerIds : createOrganization(d, o)
  \/ \E i \in OrgIds, p \in ProjectIds, u \in ProjectUrls :
        updateOrganizationProject(i, p, u)
  \/ \E i \in OrgIds : suspend(i)
  \/ \E r \in Requests, d \in Domains : expressRouteToClient_query(r, d)
  \/ \E r \in Requests, d \in Domains : expressRouteToClient_reject(r, d)
  \/ \E r \in Requests : expressRouteToClient_resume(r)
  \/ \E r \in Requests : expressRequestEnds(r)

SpecExpress == Init /\ [][NextExpress]_vars

\* The ingestion API of one client project, called in any order.
IngestionIds == 1..Cardinality(Checksums)

NextIngestion ==
  \/ \E i \in Identities \cup {Null}, c \in Checksums,
        p \in ProcessingConfigs \cup {Null} : startIngestion(i, c, p)
  \/ \E n \in IngestionIds, m \in Markdowns, st \in ConversionStages :
        storeMarkdownContent(n, m, st)
  \/ \E i \in Identities \cup {Null}, n \in IngestionIds, b \in EntityBatches :
        storeExtractedEntities(i, n, b)

SpecIngestion == Init /\ [][NextIngestion]_vars

\* The middleware chain of the gateway, from a cold Redis or from one in
\* which a user's earlier requests of the first window are counted.
EarlierRequests ==
  {0, RATE_LIMITS["small"].requests - 1, RATE_LIMITS["small"].requests}

InitLimiter ==
  /\ InitPrograms
  /\ JobsCold
  /\ NoFlags
  /\ \E n \in EarlierRequests : LimiterWarm(n, "user_1")

NextLimiter ==
  \/ \E r \in Requests, t \in Tokens \cup {Null}, p \in Paths :
        rateLimiter_begin(r, t, p)
  \/ \E r \in Requests : rateLimiter_incr(r)
  \/ \E r \in Requests : rateLimiter_expire(r)
  \/ \E r \in Requests : rateLimiter_catch(r)
  \/ \E r \in Requests : rateLimiter_check(r)
  \/ \E r \in Requests : jwtVerify(r)
  \/ \E r \in Requests : limitedRequestEnds(r)
  \/ windowTurns
  \/ \E k \in RateLimitKeys : redisExpires(k)

SpecLimiter == InitLimiter /\ [][NextLimiter]_vars

\* The middleware chain under the requests of one user, all with that
\* user's token: the requests of one rate-limit key, in any interleaving.
OneUserTokens == { t \in Tokens : t.sub = "user_1" }

NextCounting ==
  \/ \E r \in Requests, t \in OneUserTokens, p \in Paths :
        rateLimiter_begin(r, t, p)
  \/ \E r \in Requests : rateLimiter_incr(r)
  \/ \E r \in Requests : rateLimiter_expire(r)
  \/ \E r \in Requests : rateLimiter_catch(r)
  \/ \E r \in Requests : rateLimiter_check(r)
  \/ \E r \in Requests : jwtVerify(r)
  \/ \E r \in Requests : limitedRequestEnds(r)
  \/ windowTurns
  \/ \E k \in RateLimitKeys : redisExpires(k)

SpecCounting == InitLimiter /\ [][NextCounting]_vars

\* The first conversion result that yields chunks, for every markdown: the
\* parser does not read the table, so what it stores for a markdown is the
\* same whatever the table holds.
firstConversionResult(ingestionId, markdownContent, stage) ==
  /\ documentChunks = << >>
  /\ storeMarkdownContent(ingestionId, markdownContent, stage)

NextChunking ==
  \/ \E i \in Identities, c \in Checksums : startIngestion(i, c, Null)
  \/ \E n \in IngestionIds, m \in AllMarkdowns, st \in ConversionStages :
        firstConversionResult(n, m, st)

SpecChunking == Init /\ [][NextChunking]_vars

\* The job library of one client project, from an empty table or from a
\* backlog of earlier jobs.
InitJobs ==
  /\ InitPrograms
  /\ LimiterCold
  /\ NoFlags
  /\ \/ JobsCold
     \/ \E p \in Priorities : JobsBacklog(p)

NextJobs ==
  \/ \E p \in Priorities, t \in Schedules : createJob(p, t)
  \/ processPendingJobs
  \/ projectTick

SpecJobs == InitJobs /\ [][NextJobs]_vars

\* Functions built by wrapApi in one client project, with any options, in
\* a query or a mutation, over any featureFlags table.
InitWrapped ==
  /\ InitPrograms
  /\ LimiterCold
  /\ JobsCold
  /\ featureFlags \in FlagTables

NextWrapped ==
  \E o \in WrapOptions, k \in CtxKinds, i \in Identities \cup {Null},
     h \in HandlerOutcomes, slow \in BOOLEAN : wrapApi(o, k, i, h, slow)

SpecWrapped == InitWrapped /\ [][NextWrapped]_vars

\* Functions built by withCache in one client project, as time passes.
NextCached ==
  \/ \E k \in CtxKinds, a \in CacheArgs, v \in QueryResults :
        withCache("caseList", k, a, v)
  \/ projectTick

SpecCached == Init /\ [][NextCached]_vars

\* The control plane on its own (convex/organizations.ts): the mutations
\* called in any order, for any of the domains, with any of the strings
\* v.string() admits for the project, the empty string among them.

NextOrganizations ==
  \/ \E d \in Domains, o \in OwnerIds : createOrganization(d, o)
  \/ \E i \in AnyOrgIds, p \in AnyProjectIds, u \in ProjectUrls :
        updateOrganizationProject(i, p, u)
  \/ \E i \in AnyOrgIds : suspend(i)

SpecOrganizations == Init /\ [][NextOrganizations]_vars

\* ------------------------------------------------------------ properties

\* What the properties say about the directory and the caller, stated on the
\* tables and the token themselves.
NoRecord(d) == \A i \in 1..Len(organizations) : organizations[i].domain # d

StatusOf(d) ==
  IF NoRecord(d) THEN "none"
  ELSE organizations[CHOOSE i \in 1..Len(organizations) :
                        organizations[i].domain = d].deploymentStatus

SuspendedAtOf(d) ==
  organizations[CHOOSE i \in 1..Len(organizations) :
                   organizations[i].domain = d].suspendedAt

\* Some entry of the membership list names tenant d, by slug or by Clerk id.
IsMember(userOrgs, d) ==
  \E k \in 1..Len(userOrgs) :
     \/ userOrgs[k].org_slug = d
     \/ userOrgs[k].org_id = ClerkOrgIdOf(d)

Established == 1..(nextClient - 1)
InCache(client) ==
  \E d \in Domains : clientCache[d] # NoEntry /\ clientCache[d].client = client
EntryAge(d) == now - clientCache[d].cachedAt

Starts(r)    == req[r].pc = "idle" /\ req'[r].pc # "idle"
Done(r)      == req[r].pc = "done"
AtRest       == \A r \in Requests : req[r].pc \in {"idle", "ended"}

\* C1: a routing call made while the tenant's record exists and its status is
\* not 'active' never ends with a client attached.  Stated for the calls that
\* start and return in one step, so that the status during the call is the one
\* of that step.
C1_InactiveTenantNeverRouted ==
  [][ \A r \in Requests :
        ( /\ Starts(r) /\ req'[r].pc = "done"
          /\ req'[r].domain \in Domains
          /\ StatusOf(req'[r].domain) \in {"provisioning", "suspended"} )
        => req'[r].convexClient = NoClient ]_vars

\* C2: a caller without a membership for the tenant is never handed a client
\* for it.  Stated for the callers whose membership list names no tenant but
\* with complete entries (org_slug and org_id both present), whom the access
\* check itself refuses.
C2_NonMemberNeverRouted ==
  \A r \in Requests :
     ( /\ Done(r) /\ req[r].domain \in Domains
       /\ ~ IsMember(req[r].jwtPayload.org_memberships, req[r].domain)
       /\ \A k \in 1..Len(req[r].jwtPayload.org_memberships) :
             /\ req[r].jwtPayload.org_memberships[k].org_slug # Undefined
             /\ req[r].jwtPayload.org_memberships[k].org_id # Undefined )
     => req[r].convexClient = NoClient

\* C3: a call that reached the access check is let through exactly when the
\* caller's membership list has an entry for the requested tenant.
C3_AccessIffMember ==
  \A r \in Requests :
     ( /\ Done(r) /\ ~ req[r].hit
       /\ req[r].response \in {"next", "Access denied to this organization"} )
     => ( req[r].response = "next"
          <=> IsMember(req[r].jwtPayload.org_memberships, req[r].domain) )

\* C4: while the entry stored for a tenant is CACHE_TTL old or older, no call
\* for that tenant is served from the cache and none returns the stored
\* client, swept or not.
C4_ExpiredNeverServed ==
  \A r \in Requests :
     ( /\ req[r].pc \in {"query", "resume", "done"}
       /\ req[r].domain \in Domains
       /\ clientCache[req[r].domain] # NoEntry
       /\ EntryAge(req[r].domain) >= CACHE_TTL )
     => /\ ~ req[r].hit
        /\ req[r].convexClient # clientCache[req[r].domain].client

\* A call has read the cache while the stored entry was exactly CACHE_TTL old
\* and not swept, and went on to the lookup.
C4_Witness ==
  \E r \in Requests :
     /\ req[r].pc = "query"
     /\ clientCache[req[r].domain] # NoEntry
     /\ EntryAge(req[r].domain) = CACHE_TTL

\* C5: a client that the cache no longer holds (its entry was replaced or
\* swept) has been released exactly once, and a client the cache holds has not
\* been released.
C5_SupersededReleasedOnce ==
  \A c \in Established :
     ReleaseCalls(c) = IF InCache(c) THEN 0 ELSE 1

\* C6: calls for a cold tenant by members whose lookup found the active
\* tenant (with a deployment address) all succeed, and once they have
\* returned, with no entry old enough to have expired, every client they
\* established is either the cached one or released.
C6_ConcurrentMissesNoLeak ==
  /\ \A r \in Requests :
        ( /\ Done(r) /\ ~ req[r].hit /\ req[r].org # Null
          /\ req[r].org.projectUrl # ""
          /\ IsMember(req[r].jwtPayload.org_memberships, req[r].domain) )
        => req[r].response = "next"
  /\ (AtRest /\ now < CACHE_TTL)
        => \A c \in Established : InCache(c) \/ ReleaseCalls(c) = 1

\* C7: a call that starts more than CACHE_TTL after the tenant was suspended
\* is not served a client.
C7_SuspensionHonoredWithinTTL ==
  [][ \A r \in Requests :
        ( /\ Starts(r)
          /\ req'[r].domain \in Domains
          /\ StatusOf(req'[r].domain) = "suspended"
          /\ now > SuspendedAtOf(req'[r].domain) + CACHE_TTL )
        => req'[r].convexClient = NoClient ]_vars

C9_InactiveNotReportedMissing ==
  [][ \A r \in Requests :
        (req[r].pc = "query" /\ req'[r].pc = "resume")
        => /\ StatusOf(req[r].domain) \in {"provisioning", "suspended"}
              => statusCheck(req'[r].org) = "Organization not active"
           /\ statusCheck(req'[r].org) = "Organization not found"
              => StatusOf(req[r].domain) = "none" ]_vars

\* C10: for a domain without a record the lookup answers null; a call for it
\* ends with 'Organization not found' (with 'Failed to route request' when the
\* lookup itself failed and answered nothing), and no call for it returns a
\* client or leaves a cache entry.
C10_UnknownTenantNotFound ==
  /\ \A d \in Domains : NoRecord(d) => getOrganizationByDomain(d) = Null
  /\ \A r \in Requests :
        ( req[r].pc \in {"resume", "done"}
          /\ req[r].domain \in Domains /\ NoRecord(req[r].domain) )
        => /\ req[r].org = Null
           /\ req[r].convexClient = NoClient
           /\ clientCache[req[r].domain] = NoEntry
           /\ Done(r) => req[r].response \in
                 {"Organization not found", "Failed to route request"}

C10_Witness ==
  \E r \in Requests :
     /\ Done(r) /\ req[r].domain = "beta" /\ NoRecord("beta")
     /\ Len(organizations) > 0
     /\ req[r].response = "Organization not found"

\* C11: a step of a routing call that does not end the call with success
\* leaves clientCache and the clients as they were: the steps up to and
\* including the lookup, and the step that ends the call with any error
\* (missing domain, not found, not active, access denied, failed lookup,
\* failed construction of the client).  An entry is written only by the step
\* that lets a call through, for the call's own domain, after its lookup
\* returned an active organization.
C11_FailureLeavesCacheUnchanged ==
  [][ /\ \A r \in Requests :
           ( /\ req'[r] # req[r]
             /\ req[r].pc \in {"idle", "query", "resume"}
             /\ ~ (req[r].pc = "resume" /\ req'[r].response = "next") )
           => /\ clientCache' = clientCache
              /\ nextClient' = nextClient
      /\ \A d \in Domains :
           (clientCache'[d] # clientCache[d] /\ clientCache'[d] # NoEntry)
           => \E r \in Requests :
                 /\ req[r].pc = "resume" /\ req[r].domain = d
                 /\ req[r].org # Null
                 /\ req[r].org.deploymentStatus = "active"
                 /\ req'[r].pc = "done" /\ req'[r].response = "next"
                 /\ req'[r].convexClient = clientCache'[d].client ]_vars

\* A call that passed the lookup and both checks has failed at the
\* construction of the client, while the cache holds an earlier entry for its
\* domain.
C11_Witness ==
  \E r \in Requests :
     /\ Done(r) /\ req[r].response = "Failed to route request"
     /\ req[r].org # Null
     /\ clientCache[req[r].domain] # NoEntry

\* C12: updateOrganizationProject takes an organization to 'active' only from
\* 'provisioning': no step changes the projectId or the projectUrl of an
\* organization that is 'active' or 'suspended', and none changes its status
\* other than the suspension of an active one.
C12_ActivationOnlyFromProvisioning ==
  [][ \A i \in 1..Len(organizations) :
        organizations[i].deploymentStatus \in {"active", "suspended"}
        => /\ organizations'[i].projectId = organizations[i].projectId
           /\ organizations'[i].projectUrl = organizations[i].projectUrl
           /\ \/ organizations'[i].deploymentStatus =
                    organizations[i].deploymentStatus
              \/ /\ organizations[i].deploymentStatus = "active"
                 /\ organizations'[i].deploymentStatus = "suspended" ]_vars

\* C13: an organization whose projectUrl is empty is 'provisioning'.
C13_EmptyUrlOnlyWhileProvisioning ==
  \A i \in 1..Len(organizations) :
     organizations[i].projectUrl = ""
     => organizations[i].deploymentStatus = "provisioning"

\* C14: no two organizations share a domain; a step that inserts an
\* organization inserts one, under a domain no record had, together with one
\* userOrganizations row linking the owner to it; and where a domain has a
\* record, no createOrganization call for it can change either table.
DomainsUnique ==
  \A i, j \in 1..Len(organizations) :
     organizations[i].domain = organizations[j].domain => i = j

DuplicateInsertsNothing ==
  \A d \in Domains, o \in OwnerIds :
     ~ NoRecord(d)
     => ~ ENABLED ( /\ createOrganization(d, o)
                    /\ \/ organizations' # organizations
                       \/ userOrganizations' # userOrganizations )

C14_DomainUniqueness ==
  /\ [](DomainsUnique /\ DuplicateInsertsNothing)
  /\ [][ organizations' # organizations /\ Len(organizations') # Len(organizations)
         => /\ Len(organizations') = Len(organizations) + 1
            /\ SubSeq(organizations', 1, Len(organizations)) = organizations
            /\ NoRecord(organizations'[Len(organizations')].domain)
            /\ userOrganizations' = Append(userOrganizations,
                  [ clerkUserId    |-> userOrganizations'[Len(userOrganizations')].clerkUserId,
                    organizationId |-> Len(organizations'),
                    role           |-> "owner" ]) ]_vars

\* Both domains are registered, each once, each with its owner row: every
\* further createOrganization call is a duplicate.
C14_Witness ==
  /\ Len(organizations) = Cardinality(Domains)
  /\ Len(userOrganizations) = Cardinality(Domains)
  /\ \A d \in Domains : ~ NoRecord(d)

\* C15: whenever the cleanup runs, at time now, it leaves no entry that has
\* expired (cachedAt + CACHE_TTL <= now) and leaves every other entry as it
\* was.
SweepAsClaimed ==
  \A d \in Domains :
     IF clientCache[d] # NoEntry /\ clientCache[d].cachedAt + CACHE_TTL <= now
     THEN clientCache'[d] = NoEntry
     ELSE clientCache'[d] = clientCache[d]

C15_SweepRemovesExactlyExpired ==
  ~ ENABLED (cacheCleanup /\ ~ SweepAsClaimed)

C17_ExpressRoutesOnlyActive ==
  [][ \A r \in Requests :
        /\ (xreq[r].pc = "idle" /\ xreq'[r].pc = "resume")
           => (xreq'[r].org # Null <=> StatusOf(xreq'[r].domain) = "active")
        /\ ( /\ xreq[r].pc # "done" /\ xreq'[r].pc = "done"
             /\ xreq'[r].convexClient # NoClient )
           => /\ xreq[r].pc = "resume"
              /\ xreq[r].org # Null
              /\ xreq[r].org.deploymentStatus = "active"
              /\ xreq'[r].convexClient =
                    clientConnections'[xreq[r].org.projectUrl]
        /\ (xreq[r].pc = "resume" /\ xreq'[r].pc = "done" /\ xreq[r].org = Null)
           => /\ xreq'[r].response = "Organization not found"
              /\ xreq'[r].convexClient = NoClient
              /\ clientConnections' = clientConnections ]_vars

\* A request for a suspended tenant has been refused while the client
\* created for the tenant's deployment is still in clientConnections.
C17_Witness ==
  \E r \in Requests :
     /\ xreq[r].pc = "done"
     /\ xreq[r].response = "Organization not found"
     /\ StatusOf(xreq[r].domain) = "suspended"
     /\ \E i \in 1..Len(organizations) :
           /\ organizations[i].domain = xreq[r].domain
           /\ clientConnections[organizations[i].projectUrl] # NoClient

\* C18: with every tenant provisioned with its own project, a call that
\* returns with success for domain d carries the projectUrl of d's project
\* and the client held by the cache entry under key d; every cache entry
\* holds the projectUrl of the project of its key, and no client is held
\* under two keys.
C18_TenantIsolation ==
  /\ \A r \in Requests :
        (Done(r) /\ req[r].response = "next")
        => /\ req[r].projectUrl = ProjectUrlOf(req[r].domain)
           /\ clientCache[req[r].domain] # NoEntry
           /\ clientCache[req[r].domain].client = req[r].convexClient
  /\ \A d \in Domains :
        clientCache[d] # NoEntry
        => /\ clientCache[d].projectUrl = ProjectUrlOf(d)
           /\ \A e \in Domains \ {d} :
                 clientCache[e] # NoEntry
                 => clientCache[e].client # clientCache[d].client

\* A call for one tenant has returned with success while a call for the
\* other tenant, whose lookup has been answered, is suspended at its await.
C18_Witness ==
  \E r, q \in Requests :
     /\ Done(r) /\ req[r].response = "next"
     /\ req[q].pc = "resume" /\ req[q].org # Null
     /\ req[q].domain # req[r].domain

\* C19: an ingestion is 'completed' only with its docetl stage completed
\* and, where a conversion stage (chunkr or docling) was requested, with a
\* conversion stage completed: no completed ingestion has a conversion
\* stage pending and none completed.
C19_CompletedOnlyAfterConversion ==
  \A i \in 1..Len(documentIngestion) :
     documentIngestion[i].status = "completed"
     => /\ documentIngestion[i].stages.docetl = "completed"
        /\ (\E st \in ConversionStages :
               documentIngestion[i].stages[st] = "pending")
           => (\E st \in ConversionStages :
                 documentIngestion[i].stages[st] = "completed")

\* C20: a user's request is refused with 429 only when that user has made
\* more requests in the window than the plan of the user's organization
\* allows.
SenderOf(r) == userIdOf(lreq[r].token)
PlanOfSender(r) == planOf(lreq[r].token)

C20_LimitedPerUserAndPlan ==
  \A r \in Requests :
     ( /\ lreq[r].pc = "done" /\ lreq[r].response = "Rate limit exceeded"
       /\ lreq[r].token # Null )
     => countAt(made, << SenderOf(r), lreq[r].key[2] >>)
           > RATE_LIMITS[PlanOfSender(r)].requests


\* C21: for one rate-limit key and within one window, the limit check lets
\* through at most limits.requests requests, however the requests
\* interleave; the Remaining header of a request that was let through is
\* not negative; and a request whose increment returned more than
\* limits.requests is answered 'Rate limit exceeded' by its check.
C21_AtMostLimitPassPerKey ==
  /\ [] ( /\ \A x \in DOMAIN passed : passed[x].count <= passed[x].requests
          /\ \A r \in Requests :
                (lreq[r].pc \in {"jwt", "done"} /\ lreq[r].remaining # << >>)
                => lreq[r].remaining[1] # "-" )
  /\ [][ \A r \in Requests :
          ( /\ lreq[r].pc = "check"
            /\ lreq'[r].pc # "check"
            /\ lreq[r].count > RATE_LIMITS[lreq[r].plan].requests )
          => /\ lreq'[r].pc = "done"
             /\ lreq'[r].response = "Rate limit exceeded"
             /\ passed' = passed ]_vars

\* Two requests were counted at the limit: the key's window has let
\* through exactly limits.requests, one of them with nothing remaining,
\* while the other is answered 'Rate limit exceeded'.
C21_Witness ==
  \E r, q \in Requests :
     /\ lreq[r].pc = "done" /\ lreq[r].response = "Rate limit exceeded"
     /\ lreq[q].pc = "jwt" /\ lreq[q].remaining = << "", 0 >>
     /\ lreq[q].key = lreq[r].key
     /\ lreq[q].count < lreq[r].count
     /\ countAt(passed, << lreq[r].key, window >>)
           = RATE_LIMITS[lreq[r].plan].requests

\* C22: no two documentIngestion records have the same sourceChecksum; a
\* startIngestion call inserts at most one record, under a checksum no
\* record had, with one processingQueue row for it; and where a checksum has
\* a record, no startIngestion call for it can change either table.
ChecksumsUnique ==
  \A i, j \in 1..Len(documentIngestion) :
     documentIngestion[i].sourceChecksum = documentIngestion[j].sourceChecksum
     => i = j

Ingested(checksum) ==
  \E k \in 1..Len(documentIngestion) :
     documentIngestion[k].sourceChecksum = checksum

DuplicateIngestsNothing ==
  \A i \in Identities \cup {Null}, c \in Checksums,
     p \in ProcessingConfigs \cup {Null} :
     Ingested(c)
     => ~ ENABLED ( /\ startIngestion(i, c, p)
                    /\ \/ documentIngestion' # documentIngestion
                       \/ processingQueue' # processingQueue )

C22_ChecksumUniqueness ==
  /\ [](ChecksumsUnique /\ DuplicateIngestsNothing)
  /\ [][ Len(documentIngestion') # Len(documentIngestion)
         => /\ Len(documentIngestion') = Len(documentIngestion) + 1
            /\ SubSeq(documentIngestion', 1, Len(documentIngestion))
                  = documentIngestion
            /\ ~ Ingested(documentIngestion'[Len(documentIngestion')].sourceChecksum)
            /\ Len(processingQueue') = Len(processingQueue) + 1
            /\ processingQueue'[Len(processingQueue')].ingestionId
                  = Len(documentIngestion') ]_vars

\* Every checksum has been ingested, each once, each with its queue row:
\* every further startIngestion call is a duplicate.
C22_Witness ==
  /\ Len(documentIngestion) = Cardinality(Checksums)
  /\ Len(processingQueue) = Cardinality(Checksums)
  /\ \A c \in Checksums : Ingested(c)

\* C23: in every state, of what processPendingJobs returns when it is
\* called in that state, every returned job is pending
\* and ready (scheduledFor unset or <= now), the returned jobs are in
\* priority order, highest first and newest first within equal priority,
\* and when more jobs are ready than the batch holds, no ready job left
\* out has a strictly higher priority than a returned one.
ReadyJobs ==
  { k \in 1..Len(backgroundJobs) :
      /\ backgroundJobs[k].status = "pending"
      /\ \/ backgroundJobs[k].scheduledFor = NotSupplied
         \/ backgroundJobs[k].scheduledFor[1] <= projectNow }

BatchAsClaimed(returned) ==
  /\ \A i \in 1..Len(returned) : returned[i] \in ReadyJobs
  /\ \A i, j \in 1..Len(returned) :
        i < j =>
          /\ backgroundJobs[returned[i]].priority
                >= backgroundJobs[returned[j]].priority
          /\ backgroundJobs[returned[i]].priority
                = backgroundJobs[returned[j]].priority
             => returned[i] > returned[j]
  /\ Cardinality(ReadyJobs) > BatchLimit
     => \A k \in ReadyJobs :
           (\A i \in 1..Len(returned) : returned[i] # k)
           => \A i \in 1..Len(returned) :
                 backgroundJobs[k].priority
                   <= backgroundJobs[returned[i]].priority

C23_BatchInPriorityOrder ==
  BatchAsClaimed(pendingJobsAt(backgroundJobs, projectNow))

\* C24: a createJob call appends exactly one job, pending and with no
\* attempts, whose priority is the one supplied, for every supplied value
\* from 0 to 10, and 5 when none is supplied.
JobAsClaimed(priority) ==
  /\ Len(backgroundJobs') = Len(backgroundJobs) + 1
  /\ SubSeq(backgroundJobs', 1, Len(backgroundJobs)) = backgroundJobs
  /\ backgroundJobs'[Len(backgroundJobs')].status = "pending"
  /\ backgroundJobs'[Len(backgroundJobs')].attempts = 0
  /\ backgroundJobs'[Len(backgroundJobs')].priority =
        IF priority = NotSupplied THEN 5 ELSE priority[1]

C24_PriorityAsSupplied ==
  \A p \in Priorities, t \in Schedules :
     ~ ENABLED (createJob(p, t) /\ ~ JobAsClaimed(p))

\* C25: for every call of a function wrapped with an auditAction: the
\* handler ran only if the caller was authenticated (when requireAuth) and
\* the named feature flag exists and is enabled (when featureFlag); if the
\* handler returned, exactly one auditLogs row with the action was written;
\* otherwise none was written and the caller received the error of the
\* rejection or of the handler.
C25_AuditedExactlyOnSuccess ==
  [][ (wrapped'.n # wrapped.n /\ wrapped'.options.auditAction # NotSupplied)
      => /\ wrapped'.handlerRan
            => /\ wrapped'.options.requireAuth => wrapped'.identity # Null
               /\ wrapped'.options.featureFlag # NotSupplied
                  => \E k \in 1..Len(featureFlags) :
                        /\ featureFlags[k].feature = wrapped'.options.featureFlag[1]
                        /\ featureFlags[k].enabled
         /\ IF wrapped'.handlerReturned
            THEN auditLogs' = Append(auditLogs,
                    [action |-> wrapped'.options.auditAction[1]])
            ELSE /\ auditLogs' = auditLogs
                 /\ wrapped'.thrown \in
                       {"Unauthenticated", "Feature not enabled", "handler error"}
    ]_vars

\* C26: at most one cache row exists per key; and for every call of a
\* function built by withCache: if a row of its key is younger than the
\* ttl, the call returns the stored value, executes queryFn not at all and
\* leaves the table alone; otherwise it executes queryFn once, returns its
\* result and leaves it stored under the key with createdAt = now, in the
\* row the key had if it had one and in one new row if not.
OneRowPerKey ==
  \A i, j \in 1..Len(cache) : cache[i].key = cache[j].key => i = j

RowsOf(cacheId) == { i \in 1..Len(cache) : cache[i].key = cacheId }

CallAsClaimed ==
  LET rows == RowsOf(cacheCall'.cacheId)
      ttl  == CACHE_CONFIGS["caseList"].ttl
  IN  IF \E i \in rows : DateNow - cache[i].createdAt < ttl
      THEN /\ cacheCall'.executed = 0
           /\ \E i \in rows : /\ DateNow - cache[i].createdAt < ttl
                               /\ cacheCall'.returned = << cache[i].value >>
           /\ cache' = cache
      ELSE /\ cacheCall'.executed = 1
           /\ cacheCall'.returned # NotSupplied
           /\ Len(cache') = IF rows = {} THEN Len(cache) + 1 ELSE Len(cache)
           /\ \E i \in 1..Len(cache') :
                 /\ rows # {} => i \in rows
                 /\ cache'[i] = [ key       |-> cacheCall'.cacheId,
                                  value     |-> cacheCall'.returned[1],
                                  createdAt |-> DateNow ]
                 /\ \A j \in 1..Len(cache) : j # i => cache'[j] = cache[j]

C26_CachedWithinTtl ==
  /\ [] OneRowPerKey
  /\ [][ cacheCall'.n # cacheCall.n => CallAsClaimed ]_vars

\* C27: the chunks a storeMarkdownContent call stores for a markdown are
\* numbered 0, 1, ... in the order they are stored, none has empty content,
\* every line of the markdown that is not blank is contained in exactly one
\* of them, and the chunks follow the order of the lines; a call that stores
\* no chunk was given no line that is not blank.
ChunksWith(chunks, text) ==
  { i \in 1..Len(chunks) :
      \E p \in 1..Len(chunks[i].content) : chunks[i].content[p] = text }

ChunksAsClaimed(lines, chunks) ==
  /\ \A i \in 1..Len(chunks) :
        /\ chunks[i].chunkIndex = i - 1
        /\ chunks[i].content # << >>
  /\ \A k \in 1..Len(lines) :
        lines[k].kind # "blank"
        => Cardinality(ChunksWith(chunks, lines[k].text)) = 1
  /\ \A k, l \in 1..Len(lines) :
        (k < l /\ lines[k].kind # "blank" /\ lines[l].kind # "blank")
        => \A i \in ChunksWith(chunks, lines[k].text),
              j \in ChunksWith(chunks, lines[l].text) : i <= j

C27_ChunksCoverTheDocument ==
  [][ \A n \in 1..Len(documentIngestion') :
        ( /\ documentIngestion'[n].markdownContent # NotSupplied
          /\ \/ /\ Len(documentChunks') > Len(documentChunks)
                /\ documentChunks'[Len(documentChunks')].ingestionId = n
             \/ /\ documentChunks' = documentChunks
                /\ documentIngestion'[n] # documentIngestion[n] )
        => ChunksAsClaimed(documentIngestion'[n].markdownContent[1],
                           SubSeq(documentChunks', Len(documentChunks) + 1,
                                  Len(documentChunks')))
    ]_vars

\* A markdown of a header, a blank line and a text line has been stored as
\* two chunks.
C27_Witness ==
  \E n \in 1..Len(documentIngestion) :
     /\ documentIngestion[n].markdownContent # NotSupplied
     /\ LET lines == documentIngestion[n].markdownContent[1]
        IN  /\ Len(lines) = 3
            /\ lines[1].kind = "header"
            /\ lines[2].kind = "blank"
            /\ lines[3].kind = "text"
     /\ Len(documentChunks) = 2
     /\ documentChunks[1].chunkIndex = 0 /\ documentChunks[1].chunkType = "header"
     /\ documentChunks[2].chunkIndex = 1
     /\ \A i \in 1..2 : documentChunks[i].ingestionId = n

\* C28: every routing call that returns with success, served from
\* clientCache or freshly resolved, has convexClient, projectUrl and
\* organizationId set in its context, organizationId being the _id of a
\* record of the requested domain.
C28_HitAttachesWhatMissAttaches ==
  \A r \in Requests :
     (Done(r) /\ req[r].response = "next")
     => /\ req[r].convexClient # NoClient
        /\ req[r].projectUrl # Undefined
        /\ req[r].organizationId \in 1..Len(organizations)
        /\ organizations[req[r].organizationId].domain = req[r].domain
====
